---- MODULE Spec2Model ----
(***************************************************************************)
(* CalendarTimeTracker: the per-source event cache store                   *)
(* (calendar_store.py) and the callers that reconcile a fetch against it   *)
(* (utils.py parse_ics_from_url, pages/Import_ICS.py,                      *)
(* pages/2_Social_Analysis.py); the duration charts of app.py; the store   *)
(* called by several script runs at once; load_all_events with the faults  *)
(* of the file system.                                                     *)
(*                                                                         *)
(* Specifications: Spec (feeds, import, social fetch), StoreSpec and       *)
(* AnonSpec (the store called directly), ChartSpec (the charts),           *)
(* SessionSpec (concurrent runs), LoadSpec (load_all_events), FeedSpec     *)
(* (a feed parsed event by event), ImportSpec (imports and refreshes of    *)
(* one url), PercentSpec (the aggregation and its percent column).         *)
(*                                                                         *)
(* In the store, time is counted in whole days.  A DataFrame is a record   *)
(* [cols, rows]: the set of its column names and the sequence of its rows. *)
(* Of the columns the code writes, "calendar" and "duration_hours" are     *)
(* left out: the first is a label, the second is derived from start and    *)
(* end, and no branch of the store reads either.                           *)
(***************************************************************************)
EXTENDS Integers, Sequences, FiniteSets, TLC

(***************************************************************************)
(* Bounds of the model.                                                    *)
(***************************************************************************)
\* most events one feed, upload or direct call delivers
MaxFresh == 2

\* the configured calendar urls
Urls == {"s1", "s2"}

\* the url the store is called on directly
StoreUrl == "s1"

\* the readings of datetime.now(), in days; the clock never runs backwards
ClockValues == {40, 45, 50}

\* the uids, time spans <<start, end>> and titles events are drawn from
Uids == {"u1", "u2"}
Spans == {<<5, 6>>, <<15, 16>>}
Titles == {"A", "B"}

\* update_event_store(url, new_events_df, cutoff_days=30)
CutoffDays == 30

\* pandas' missing value
NaN == "NaN"

(***************************************************************************)
(* Sequences and frames.                                                   *)
(***************************************************************************)
Range(s) == {s[i] : i \in DOMAIN s}

\* pd.DataFrame() / pd.DataFrame([]): no columns, no rows
EmptyFrame == [cols |-> {}, rows |-> <<>>]

\* df.empty
IsEmpty(df) == df.rows = <<>> \/ df.cols = {}

\* the events of a parsed calendar (ics Event: uid, begin, end, name)
RawEvents == [uid : Uids, span : Spans, name : {"A"}]

\* events handed to the store without a uid
AnonymousEvents == [uid : {NaN}, span : Spans, name : Titles]

\* a row of a frame; a column the frame lacks reads NaN
Row(uid, start, end, name) ==
    [uid |-> uid, start |-> start, end |-> end, event_name |-> name]

\* the uids of a frame: set(df["uid"])
UidsOf(df) == {r.uid : r \in Range(df.rows)}

\* Calendar(content).events is a set of events keyed by uid: the sequences
\* of at most n raw events a parse can deliver
RECURSIVE EventLists(_, _)
EventLists(E, n) ==
    IF n = 0 THEN {<<>>}
    ELSE LET shorter == EventLists(E, n - 1)
         IN  shorter \cup
             {Append(l, e) : l \in {x \in shorter : Len(x) = n - 1}, e \in E}

DistinctUids(l) == \A i, j \in DOMAIN l : i # j => l[i].uid # l[j].uid

ParsedCalendars == {l \in EventLists(RawEvents, MaxFresh) : DistinctUids(l)}

\* the events the calendar behind a url, or an upload into it, can hold: the
\* second calendar is a small one, of a single event that may move
Published(url) ==
    IF url = StoreUrl THEN RawEvents
    ELSE {e \in RawEvents : e.uid = "u1"}

CalendarsOf(url) == {l \in ParsedCalendars : Range(l) \subseteq Published(url)}

(***************************************************************************)
(* The cache file of a source: data/<md5 of the url>.csv.                  *)
(***************************************************************************)
\* hashlib.md5(url.encode()).hexdigest(): one digest per url
hash_url(url) == <<"md5", url>>

\* one cache file shared by every url
single_cache_file(url) == <<"data", "events", "csv">>

get_cache_file_path(url) == <<"data", hash_url(url), "csv">>

Paths == {get_cache_file_path(u) : u \in Urls}

\* os.path.exists(path) is false
NoFile == [header |-> {}, lines |-> <<>>, exists |-> FALSE]

\* the instants a timestamp cell can hold
Instants == UNION {{s[1], s[2]} : s \in Spans}

\* a cell as df.to_csv writes it: a missing value as the empty text, a
\* timestamp as its text
FormatCell(col, v) ==
    IF col \in {"start", "end"} THEN ToString(v)
    ELSE IF v = NaN THEN ""
    ELSE v

\* a cell as pd.read_csv(path, parse_dates=["start", "end"]) reads it
ParseCell(col, text) ==
    IF col \in {"start", "end"}
    THEN CHOOSE t \in Instants : ToString(t) = text
    ELSE IF text = "" THEN NaN
    ELSE text

\* df.to_csv(path, index=False): a header line and one line per row
to_csv(df) ==
    [header |-> df.cols,
     lines  |-> [i \in DOMAIN df.rows |->
                    [c \in df.cols |-> FormatCell(c, df.rows[i][c])]],
     exists |-> TRUE]

\* pd.read_csv(path, parse_dates=["start", "end"])
read_csv(file) ==
    [cols |-> file.header,
     rows |-> [i \in DOMAIN file.lines |->
                  [c \in {"uid", "start", "end", "event_name"} |->
                      IF c \in file.header
                      THEN ParseCell(c, file.lines[i][c])
                      ELSE NaN]]]

\* os.path.getsize(path)
getsize(file) == Cardinality(file.header) + Len(file.lines)

load_cached_events(file) ==
    IF file.exists /\ getsize(file) > 0
    THEN read_csv(file)
    ELSE EmptyFrame

\* save_events_to_cache without its guard: an empty frame is written too
save_unguarded(file, df) == to_csv(df)

\* the file at the path after save_events_to_cache(url, df)
save_events_to_cache(file, df) ==
    IF IsEmpty(df) \/ df.cols = {}
    THEN file
    ELSE to_csv(df)

(***************************************************************************)
(* update_event_store.                                                     *)
(***************************************************************************)
\* pd.concat([a, b], ignore_index=True)
concat(a, b) == [cols |-> a.cols \cup b.cols, rows |-> a.rows \o b.rows]

\* df[mask]: the frame of the selected rows, with the columns of df
Masked(df, rows) == [cols |-> df.cols, rows |-> rows]

\* cutoff = now - timedelta(cutoff_days)
Cutoff(t) == t - CutoffDays

\* old_df with the cutoff comparison turned round: the recent rows are kept
OldRows_recent(cached_df, new_events_df, t) ==
    IF ~IsEmpty(cached_df) /\ "uid" \in cached_df.cols
    THEN LET uids_to_keep == UidsOf(new_events_df)
             IsRecent(r) == r.start >= Cutoff(t)
             NotRefreshed(r) == r.uid \notin uids_to_keep
         IN  Masked(cached_df,
                    SelectSeq(SelectSeq(cached_df.rows, IsRecent), NotRefreshed))
    ELSE EmptyFrame

\* old_df without the cutoff: every cached row not refreshed is kept
OldRows_unbounded(cached_df, new_events_df, t) ==
    IF ~IsEmpty(cached_df) /\ "uid" \in cached_df.cols
    THEN LET uids_to_keep == UidsOf(new_events_df)
             NotRefreshed(r) == r.uid \notin uids_to_keep
         IN  Masked(cached_df, SelectSeq(cached_df.rows, NotRefreshed))
    ELSE EmptyFrame

\* old_df without the uid filter: refreshed old rows are kept beside the
\* fresh ones
OldRows_keepRefreshed(cached_df, new_events_df, t) ==
    IF ~IsEmpty(cached_df) /\ "uid" \in cached_df.cols
    THEN LET IsOld(r) == r.start < Cutoff(t)
         IN  Masked(cached_df, SelectSeq(cached_df.rows, IsOld))
    ELSE EmptyFrame

\* old_df of update_event_store, lines 37-43
OldRows(cached_df, new_events_df, t) ==
    IF ~IsEmpty(cached_df) /\ "uid" \in cached_df.cols
    THEN LET uids_to_keep == UidsOf(new_events_df)
             IsOld(r) == r.start < Cutoff(t)
             NotRefreshed(r) == r.uid \notin uids_to_keep
         IN  Masked(cached_df,
                    SelectSeq(SelectSeq(cached_df.rows, IsOld), NotRefreshed))
    ELSE EmptyFrame

\* combined_df as a plain append of the fresh rows to the whole cache
Combined_append(cached_df, new_events_df, t) ==
    IF "uid" \in new_events_df.cols
    THEN concat(cached_df, new_events_df)
    ELSE new_events_df

\* combined_df of update_event_store, lines 35-47
Combined(cached_df, new_events_df, t) ==
    IF "uid" \in new_events_df.cols
    THEN concat(OldRows(cached_df, new_events_df, t), new_events_df)
    ELSE new_events_df

\* update_event_store(url, new_events_df) at clock reading t, on the file it
\* finds at the url's path: what it returns and the file it leaves
update_event_store(file, new_events_df, t) ==
    LET cached_df == load_cached_events(file)
        combined_df == Combined(cached_df, new_events_df, t)
    IN  [cached |-> cached_df,
         ret    |-> combined_df,
         file   |-> save_events_to_cache(file, combined_df)]

(***************************************************************************)
(* State.                                                                  *)
(***************************************************************************)
VARIABLES
    files,   \* the data directory: the file at each cache path
    now,     \* the reading of datetime.now(timezone.utc), in days
    call,    \* the latest operation: its url, outcome and returned records
    probe,   \* the latest direct call of update_event_store: its argument
             \* (and whether the call before it had the same), the cache it
             \* loaded, the clock it read, the frame it returned
    view,    \* the latest run of show_duration_charts: its events, window
             \* and granularity, the buckets it generated and its records
    sessions,\* the script runs under way: where each stands in its
             \* reconciliation and the cache it loaded
    load,    \* the run of load_all_events: the sources done, their
             \* outcomes and the events gathered
    feed,    \* the latest feed parsed event by event: its entries and the
             \* frame of the events that were converted
    summary  \* the latest aggregation of chart records by bucket and group
             \* and its percent column

vars == <<files, now, call, probe, view, sessions, load, feed, summary>>

\* the state the cache store and its callers do not touch
charts == <<view, sessions, load, feed, summary>>

AllCols == {"uid", "start", "end", "event_name"}

\* pd.DataFrame(events) of a list of event dicts with the keys `cols`
FrameOf(events, cols) ==
    IF events = <<>> THEN EmptyFrame
    ELSE [cols |-> cols,
          rows |-> [i \in DOMAIN events |->
                      Row(IF "uid" \in cols THEN events[i].uid ELSE NaN,
                          events[i].span[1], events[i].span[2],
                          IF "event_name" \in cols THEN events[i].name ELSE NaN)]]

NoCall == [op |-> "none", url |-> "", outcome |-> "", out |-> <<>>]

NoProbe ==
    [called |-> FALSE, repeat |-> FALSE, arg |-> EmptyFrame,
     cached |-> EmptyFrame, at |-> 0, ret |-> EmptyFrame]

\* before the charts are drawn
NoView == [option |-> "none", window |-> <<0, 0>>, all_events |-> <<>>,
           events |-> <<>>, buckets |-> <<>>, records |-> <<>>]

\* the script runs that can reconcile at the same time: one browser session
\* each, every one in its own thread of the server
Sessions == {"a", "b"}

\* a script run that is not inside update_event_store
IdleSession == [pc |-> "idle", url |-> "", arg |-> EmptyFrame,
                cached |-> EmptyFrame, at |-> 0]

\* before load_all_events runs: no source visited, nothing gathered
NoLoad == [pc |-> 0, outcomes |-> [u \in Urls |-> "none"],
           all_events |-> <<>>]

\* before a feed is parsed
NoFeed == [fetched |-> FALSE, entries |-> <<>>, new_df |-> EmptyFrame]

\* before the chart records are aggregated
NoSummary == [drawn |-> FALSE, results |-> <<>>, time_aggregation |-> <<>>]

Init ==
    /\ files = [p \in Paths |-> NoFile]
    /\ now = 40
    /\ call = NoCall
    /\ probe = NoProbe
    /\ view = NoView
    /\ sessions = [s \in Sessions |-> IdleSession]
    /\ load = NoLoad
    /\ feed = NoFeed
    /\ summary = NoSummary

\* the file at the cache path of a url
FileOf(fs, url) == fs[get_cache_file_path(url)]

\* the data directory with the file of a url replaced
FilesWith(url, file) == [files EXCEPT ![get_cache_file_path(url)] = file]

\* the operation `op` hands new_df to update_event_store(url, new_df) and
\* returns combined_df.to_dict("records")
StoreCall(op, url, new_df) ==
    LET res == update_event_store(FileOf(files, url), new_df, now)
    IN  /\ call' = [op |-> op, url |-> url,
                    outcome |-> IF IsEmpty(new_df) THEN "no_events" ELSE "ok",
                    out |-> res.ret.rows]
        /\ files' = FilesWith(url, res.file)

(***************************************************************************)
(* Operations.                                                             *)
(***************************************************************************)
\* time passes
Tick ==
    /\ \E t \in ClockValues : t > now /\ now' = t
    /\ UNCHANGED <<files, call, probe>>

\* utils.parse_ics_from_url(url, calendar_name): the request answers with a
\* status other than 200 and the function returns []
RefreshHttpError(url) ==
    /\ call' = [op |-> "refresh", url |-> url, outcome |-> "http_error",
                out |-> <<>>]
    /\ UNCHANGED <<files, now, probe>>

\* utils.parse_ics_from_url: open, requests.get or Calendar(content) raises
\* and the outer handler returns []
RefreshException(url) ==
    /\ call' = [op |-> "refresh", url |-> url, outcome |-> "exception",
                out |-> <<>>]
    /\ UNCHANGED <<files, now, probe>>

\* utils.parse_ics_from_url: the feed is fetched and parsed, its events
\* (none, perhaps) are reconciled and the combined records returned
RefreshOk(url) ==
    \E events \in CalendarsOf(url) :
        /\ StoreCall("refresh", url, FrameOf(events, AllCols))
        /\ UNCHANGED <<now, probe>>

parse_ics_from_url(url) ==
    \/ RefreshHttpError(url)
    \/ RefreshException(url)
    \/ RefreshOk(url)

\* pages/Import_ICS.py: an uploaded file with at least one event is
\* reconciled into the target calendar's cache; its rows carry no event_name
ImportICS(url) ==
    \E events \in CalendarsOf(url) :
        /\ events # <<>>
        /\ StoreCall("import", url, FrameOf(events, AllCols \ {"event_name"}))
        /\ UNCHANGED <<now, probe>>

\* pages/2_Social_Analysis.py fetch_calendar_events: the events of a fetched
\* feed, when there are any, are reconciled into the shared cache
fetch_calendar_events(url) ==
    \E events \in CalendarsOf(url) :
        /\ events # <<>>
        /\ StoreCall("social", url, FrameOf(events, AllCols))
        /\ UNCHANGED <<now, probe>>

Next ==
    /\ \/ Tick
       \/ \E url \in Urls : parse_ics_from_url(url)
       \/ \E url \in Urls : ImportICS(url)
       \/ \E url \in Urls : fetch_calendar_events(url)
    /\ UNCHANGED charts

Spec == Init /\ [][Next]_vars

(***************************************************************************)
(* The store called directly, on one url, with the frames a caller can     *)
(* build: the frame of a parsed calendar (the empty frame when it holds no *)
(* event) and, for a source without uids, a frame that has no uid column.  *)
(***************************************************************************)
UidFrames == {FrameOf(l, AllCols) : l \in ParsedCalendars}

AnonymousFrames ==
    {FrameOf(l, AllCols \ {"uid"}) : l \in EventLists(AnonymousEvents, MaxFresh)}

\* update_event_store(url, new_events_df)
Reconcile(url, new_events_df) ==
    LET res == update_event_store(FileOf(files, url), new_events_df, now)
    IN  /\ probe' = [called |-> TRUE,
                     repeat |-> probe.called /\ probe.arg = new_events_df,
                     arg |-> new_events_df,
                     cached |-> res.cached,
                     at |-> now,
                     ret |-> res.ret]
        /\ StoreCall("reconcile", url, new_events_df)
        /\ UNCHANGED now

StoreNext ==
    /\ \/ Tick
       \/ \E df \in UidFrames : Reconcile(StoreUrl, df)
    /\ UNCHANGED charts

StoreSpec == Init /\ [][StoreNext]_vars

AnonNext ==
    /\ \/ Tick
       \/ \E df \in UidFrames : Reconcile(StoreUrl, df)
       \/ \E df \in AnonymousFrames : Reconcile(StoreUrl, df)
    /\ UNCHANGED charts

AnonSpec == Init /\ [][AnonNext]_vars

(***************************************************************************)
(* Properties of the cache store.                                          *)
(***************************************************************************)
\* the rows of a frame, as a set
RowSet(df) == Range(df.rows)

\* the identity of an event that carries no uid
SpanOf(r) == <<r.start, r.end>>

\* the direct call reconciled a frame of events that carry a uid
UidCall == probe.called /\ "uid" \in probe.arg.cols

\* the direct call reconciled a non-empty frame of events without a uid
AnonymousCall ==
    probe.called /\ ~IsEmpty(probe.arg) /\ "uid" \notin probe.arg.cols

\* the recency cutoff the direct call computed
ProbeCutoff == probe.at - CutoffDays

\* the record set persisted for a url
Persisted(url) == load_cached_events(FileOf(files, url))

\* C1: update_event_store called with an empty frame against a non-empty
\* cache returns the cached set.
C1_EmptyFetchReturnsCache ==
    (probe.called /\ IsEmpty(probe.arg) /\ ~IsEmpty(probe.cached))
        => probe.ret.rows = probe.cached.rows

\* C2: a fetch cycle that failed (status other than 200, exception) or
\* produced no events leaves the persisted record set of its source as it
\* was before the cycle.
C2_FailedFetchKeepsCache ==
    [][(call'.op = "refresh"
            /\ call'.outcome \in {"http_error", "exception", "no_events"})
        => FileOf(files', call'.url) = FileOf(files, call'.url)]_vars

C2_Witness ==
    /\ call.op = "refresh"
    /\ call.outcome = "no_events"
    /\ ~IsEmpty(Persisted(call.url))

\* C3: when the fetch for a source fails, the load still returns the
\* source's previously cached events.
C3_FailedFetchReportsCache ==
    (call.op = "refresh" /\ call.outcome \in {"http_error", "exception"})
        => call.out = Persisted(call.url).rows

\* C4: in the windowed uid reconciliation every cached event that is older
\* than the cutoff and whose uid the fresh fetch does not carry is in the
\* reconciled set, unmodified.
C4_OldEventsRetained ==
    UidCall =>
        \A r \in RowSet(probe.cached) :
            (r.uid # NaN /\ r.start < ProbeCutoff
                /\ r.uid \notin UidsOf(probe.arg))
            => r \in RowSet(probe.ret)

C4_Witness ==
    /\ UidCall
    /\ \E r \in RowSet(probe.cached) :
        /\ r.uid # NaN /\ r.start < ProbeCutoff
        /\ r.uid \notin UidsOf(probe.arg)
        /\ r \in RowSet(probe.ret)

\* C5: in the windowed uid reconciliation with a non-empty fresh fetch, a
\* cached event inside the recency window (start >= cutoff) whose uid the
\* fresh fetch does not carry is not in the reconciled set.
C5_RecentAbsentDropped ==
    UidCall =>
        \A r \in RowSet(probe.cached) :
            (r.start >= ProbeCutoff /\ r.uid \notin UidsOf(probe.arg))
            => r \notin RowSet(probe.ret)

C5_Witness ==
    /\ UidCall
    /\ \E r \in RowSet(probe.cached) :
        /\ r.uid # NaN /\ r.start >= ProbeCutoff
        /\ r.uid \notin UidsOf(probe.arg)
    /\ \E r \in RowSet(probe.cached) : r \in RowSet(probe.ret)

\* no two rows of a sequence carry the same non-empty uid
UniqueUids(rows) ==
    \A i, j \in DOMAIN rows :
        (i # j /\ rows[i].uid # NaN) => rows[i].uid # rows[j].uid

\* C6: after any sequence of feed refreshes and imports, the reconciled and
\* the persisted set of a source hold no two events with the same non-empty
\* uid.
C6_NoDuplicateUid ==
    /\ UniqueUids(call.out)
    /\ \A url \in Urls : UniqueUids(Persisted(url).rows)

C6_Witness ==
    /\ call.op = "import"
    /\ \E r \in Range(call.out) : r.event_name = NaN
    /\ \E r \in Range(call.out) : r.event_name # NaN
    /\ Persisted(call.url).rows = call.out

\* C7: when the fresh fetch carries the uid of a cached event with another
\* start or end, the reconciled set holds the fresh copy and not the old
\* one, whether the old copy lies inside or outside the recency window.
C7_ReusedUidReplaced ==
    UidCall =>
        \A c \in RowSet(probe.cached), f \in RowSet(probe.arg) :
            (c.uid # NaN /\ c.uid = f.uid /\ SpanOf(c) # SpanOf(f))
            => (f \in RowSet(probe.ret) /\ c \notin RowSet(probe.ret))

C7_Witness ==
    /\ UidCall
    /\ \E c \in RowSet(probe.cached), f \in RowSet(probe.arg) :
        c.uid = f.uid /\ SpanOf(c) # SpanOf(f) /\ c.start < ProbeCutoff
    /\ \E c \in RowSet(probe.cached), f \in RowSet(probe.arg) :
        c.uid = f.uid /\ SpanOf(c) # SpanOf(f) /\ c.start >= ProbeCutoff

\* C8: reconciling the same fresh set of uid-identified events twice in a
\* row returns the same reconciled set and leaves the same persisted set
\* the second time as the first.
C8_Idempotent ==
    [][(UidCall /\ probe'.repeat /\ probe'.arg = probe.arg)
        => (probe'.ret = probe.ret /\ files' = files)]_vars

C8_Witness ==
    /\ UidCall
    /\ probe.repeat
    /\ probe.at > 40
    /\ Len(probe.ret.rows) > Len(probe.arg.rows)
    /\ \E r \in RowSet(probe.arg) : r.start < ProbeCutoff

\* C9: for a source without uids, reconciliation returns and persists the
\* union of the cached and the fresh events: no cached event the fresh
\* fetch did not report again is lost.
C9_AnonymousUnion ==
    (AnonymousCall /\ "uid" \notin probe.cached.cols) =>
        \A c \in RowSet(probe.cached) :
            /\ \E r \in RowSet(probe.ret) : SpanOf(r) = SpanOf(c)
            /\ \E r \in RowSet(Persisted(StoreUrl)) : SpanOf(r) = SpanOf(c)

\* C10: for a source without uids, two events with the same (start, end)
\* and different titles reconcile to exactly one retained record.
C10_AnonymousCollapsed ==
    (AnonymousCall /\ "uid" \notin probe.cached.cols) =>
        \A f \in RowSet(probe.arg), g \in RowSet(probe.arg) \cup RowSet(probe.cached) :
            (SpanOf(f) = SpanOf(g) /\ f.event_name # g.event_name)
            => Cardinality({i \in DOMAIN probe.ret.rows :
                              SpanOf(probe.ret.rows[i]) = SpanOf(f)}) = 1

\* ---------------------------------------------------------------------
\* The duration charts (app.py): the month range, the filter on it, the
\* buckets of each granularity and the hours of each event in each bucket.
\*
\* Dates are day numbers counted from Monday 1 July 2024 (day 0) and
\* instants are seconds counted from that day's midnight in the local time
\* zone, taken at a fixed offset from UTC.  Hours are kept as seconds, that
\* is hours times 3600, so that no sum is rounded.

SecondsPerDay == 86400

SecondsPerHour == 3600

\* the first days of July, August, September, October, November and
\* December 2024
MonthStart == <<0, 31, 62, 92, 123, 153>>

\* the months the select boxes offer: August, September and October
Months == {2, 3, 4}

DateOptions == {"day", "week", "month"}

\* the instant of an hour of a day
At(day, hour) == day * SecondsPerDay + hour * SecondsPerHour

\* Timestamp.date()
DateOf(t) == t \div SecondsPerDay

\* date.isocalendar(): the weekday, Monday 1 to Sunday 7
isoweekday(day) == (day % 7) + 1

\* datetime.fromisocalendar(year, week, 1) of the week a day lies in
week_start(day) == day - (isoweekday(day) - 1)

\* datetime.fromisocalendar(year, week, 7) of the week a day lies in
week_end(day) == week_start(day) + 6

\* the month a day lies in
MonthOf(day) == CHOOSE m \in 1..(Len(MonthStart) - 1) :
                    MonthStart[m] <= day /\ day < MonthStart[m + 1]

\* calendar.monthrange: the last day of a month
month_end(m) == MonthStart[m + 1] - 1

\* the instants events start and end at: 31 August 22:00, 1 September
\* 10:00, 3 September 12:00, 30 September 10:00 and 23:00, 1 October 01:00
ChartInstants == {At(61, 22), At(62, 10), At(64, 12), At(91, 10),
                  At(91, 23), At(92, 1)}

ChartEvents == {e \in [start : ChartInstants, end : ChartInstants] :
                    e.start <= e.end}

\* the events loaded: one row, the loops of the charts treat every row on
\* its own
ChartFrames == {<<e>> : e \in ChartEvents}

\* select_month_range: the first day of the start month and the last day
\* of the end month
select_month_range(start_month, end_month) ==
    <<MonthStart[start_month], month_end(end_month)>>

\* the filter without its third clause
InRange_noSpan(e, start_date, end_date) ==
    \/ DateOf(e.start) >= start_date /\ DateOf(e.start) <= end_date
    \/ DateOf(e.end) >= start_date /\ DateOf(e.end) <= end_date

\* the filter of preprocess_dataframe: events that start in the range, end
\* in it, or span it
InRange(e, start_date, end_date) ==
    \/ DateOf(e.start) >= start_date /\ DateOf(e.start) <= end_date
    \/ DateOf(e.end) >= start_date /\ DateOf(e.end) <= end_date
    \/ DateOf(e.start) <= start_date /\ DateOf(e.end) >= end_date

preprocess_dataframe(events, start_date, end_date) ==
    SelectSeq(events, LAMBDA e : InRange(e, start_date, end_date))

Max(a, b) == IF a >= b THEN a ELSE b

Min(a, b) == IF a <= b THEN a ELSE b

\* the function returning event_duration, the hours of the whole event,
\* where it overlaps the period
event_duration_returned(row, period_start, period_end) ==
    LET event_start == Max(row.start, period_start)
        event_end == Min(row.end, period_end)
    IN  IF event_end <= event_start THEN 0 ELSE row.end - row.start

\* the hours (as seconds) of an event that fall in a period
calculate_time_proportion(row, period_start, period_end) ==
    LET event_start == Max(row.start, period_start)
        event_end == Min(row.end, period_end)
    IN  IF event_end <= event_start THEN 0 ELSE event_end - event_start

\* Timestamp(day).replace(hour=23, minute=59, second=59)
EndOfDay(day) == day * SecondsPerDay + (SecondsPerDay - 1)

\* the days from start_date to end_date
DayBuckets(start_date, end_date) ==
    [i \in 1..(end_date - start_date + 1) |->
        LET day == start_date + (i - 1)
        IN  [time_label |-> <<"day", day>>,
             period_start |-> day * SecondsPerDay,
             period_end |-> EndOfDay(day)]]

\* the weeks of start_date, start_date + 7 days, ... up to end_date
WeekBuckets(start_date, end_date) ==
    [i \in 1..(((end_date - start_date) \div 7) + 1) |->
        LET current_date == start_date + 7 * (i - 1)
        IN  [time_label |-> <<"week", week_start(current_date)>>,
             period_start |-> week_start(current_date) * SecondsPerDay,
             period_end |-> EndOfDay(week_end(current_date))]]

\* the months from the month of start_date to the month of end_date
MonthBuckets(start_date, end_date) ==
    LET first == MonthOf(start_date)
        last == MonthOf(end_date)
    IN  [i \in 1..(last - first + 1) |->
            LET m == first + (i - 1)
            IN  [time_label |-> <<"month", m>>,
                 period_start |-> MonthStart[m] * SecondsPerDay,
                 period_end |-> EndOfDay(month_end(m))]]

Buckets(date_option, start_date, end_date) ==
    IF date_option = "week" THEN WeekBuckets(start_date, end_date)
    ELSE IF date_option = "day" THEN DayBuckets(start_date, end_date)
    ELSE MonthBuckets(start_date, end_date)

\* the records of one period: one per event with hours in it
PeriodResults(period, df) ==
    LET all == [j \in 1..Len(df) |->
                   [time_label |-> period.time_label, row |-> j,
                    duration_hours |->
                        calculate_time_proportion(df[j], period.period_start,
                                                   period.period_end)]]
    IN  SelectSeq(all, LAMBDA r : r.duration_hours > 0)

\* results: the records of the first k periods, in the order of the loops
RECURSIVE Results(_, _, _)
Results(periods, df, k) ==
    IF k = 0 THEN <<>>
    ELSE Results(periods, df, k - 1) \o PeriodResults(periods[k], df)

\* select_month_range goes on although the range is not valid
NeverStops(window) == FALSE

\* select_month_range: `if start_date > end_date: st.warning(...); st.stop()`
Stops(window) == window[1] > window[2]

\* A range whose start lies after its end stops the script inside
\* select_month_range, which preprocess_dataframe calls before it filters:
\* the events are loaded, nothing is filtered and no chart is drawn.
StopRun(start_month, end_month, all_events) ==
    LET window == select_month_range(start_month, end_month)
    IN  /\ Stops(window)
        /\ view' = [NoView EXCEPT !.option = "stopped", !.window = window,
                                  !.all_events = all_events]
        /\ UNCHANGED <<files, now, call, probe, sessions, load, feed, summary>>

\* The charts are drawn for a month range, a granularity and the events
\* loaded, unless the range stops the script.
show_duration_charts(start_month, end_month, date_option, all_events) ==
    LET window == select_month_range(start_month, end_month)
        df == preprocess_dataframe(all_events, window[1], window[2])
        periods == Buckets(date_option, window[1], window[2])
    IN  /\ ~Stops(window)
        /\ view' = [option |-> date_option, window |-> window,
                    all_events |-> all_events, events |-> df,
                    buckets |-> periods,
                    records |-> Results(periods, df, Len(periods))]
        /\ UNCHANGED <<files, now, call, probe, sessions, load, feed, summary>>

ChartNext ==
    \E start_month \in Months, end_month \in Months,
       all_events \in ChartFrames :
        \/ StopRun(start_month, end_month, all_events)
        \/ \E date_option \in DateOptions :
               show_duration_charts(start_month, end_month, date_option,
                                    all_events)

ChartSpec == Init /\ [][ChartNext]_vars

\* the window of the latest charts as instants: from the midnight that
\* starts start_date to the midnight that ends end_date
WindowStart == view.window[1] * SecondsPerDay

WindowEnd == (view.window[2] + 1) * SecondsPerDay

\* the charts were drawn for one event that passed the filter
Charted == view.option \in DateOptions /\ Len(view.events) = 1

RECURSIVE SumHours(_, _)
SumHours(records, k) ==
    IF k = 0 THEN 0 ELSE SumHours(records, k - 1) + records[k].duration_hours

\* the hours (as seconds) the records give the event
TotalHours == SumHours(view.records, Len(view.records))

\* C11: for an event that lies fully inside the window, the hours of its
\* records over all buckets add up to its duration, at every granularity (a
\* 50-hour event over three days with day buckets adds up to 50 hours).
C11_HoursConserved ==
    (/\ Charted
     /\ WindowStart <= view.events[1].start
     /\ view.events[1].end <= WindowEnd)
    => TotalHours = view.events[1].end - view.events[1].start

\* C12: for an event that straddles a boundary of the window, the hours of
\* its records add up to the length of its intersection with the window: no
\* time outside the window is counted, at every granularity.
C12_ClippedToWindow ==
    (/\ Charted
     /\ \/ view.events[1].start < WindowStart /\ WindowStart < view.events[1].end
        \/ view.events[1].start < WindowEnd /\ WindowEnd < view.events[1].end)
    => TotalHours = Min(view.events[1].end, WindowEnd)
                    - Max(view.events[1].start, WindowStart)

\* C13: the buckets generated for a window tile it: the first starts where
\* the window starts, each next one starts where the one before it ends (no
\* gap, no overlap), the last ends where the window ends (at the last second
\* of end_date or at the midnight after it), and none reaches outside.
C13_BucketsTileWindow ==
    view.option \in DateOptions =>
        /\ Len(view.buckets) >= 1
        /\ view.buckets[1].period_start = WindowStart
        /\ \A i \in 1..(Len(view.buckets) - 1) :
               view.buckets[i + 1].period_start = view.buckets[i].period_end
        /\ view.buckets[Len(view.buckets)].period_end
               \in {WindowEnd - 1, WindowEnd}
        /\ \A i \in 1..Len(view.buckets) :
               /\ WindowStart <= view.buckets[i].period_start
               /\ view.buckets[i].period_end <= WindowEnd

\* C14: an event of zero duration that lies inside the window has exactly
\* one record, of zero hours, in the bucket that holds its instant.
C14_ZeroDurationRecord ==
    (/\ Charted
     /\ view.events[1].start = view.events[1].end
     /\ WindowStart <= view.events[1].start
     /\ view.events[1].start < WindowEnd)
    => /\ Len(view.records) = 1
       /\ view.records[1].duration_hours = 0
       /\ \E i \in 1..Len(view.buckets) :
              /\ view.buckets[i].time_label = view.records[1].time_label
              /\ view.buckets[i].period_start <= view.events[1].start
              /\ view.events[1].start <= view.buckets[i].period_end

\* ---------------------------------------------------------------------
\* update_event_store run by several script runs at once.  The server runs
\* the script of every browser session in a thread of its own, and the
\* feed refresh, the ICS import and the social-analysis fetch all call
\* update_event_store without taking a lock: between the load of the cache
\* (line 31) and the save of the combined frame (line 49) of one run, another
\* run may load and save.  Each run reconciles once.

\* lines 31-32: the run loads the cache of the url and reads the clock
LoadCache(s, url, new_events_df) ==
    /\ sessions[s].pc = "idle"
    /\ sessions' = [sessions EXCEPT ![s] =
                       [pc |-> "loaded", url |-> url, arg |-> new_events_df,
                        cached |-> load_cached_events(FileOf(files, url)),
                        at |-> now]]
    /\ UNCHANGED <<files, now, call, probe, view, load, feed, summary>>

\* lines 35-50: the run combines what it loaded with the fresh rows and
\* saves the result over the file that is at the path now
MergeAndSave(s) ==
    /\ sessions[s].pc = "loaded"
    /\ LET combined_df == Combined(sessions[s].cached, sessions[s].arg,
                                   sessions[s].at)
       IN  files' = FilesWith(sessions[s].url,
                              save_events_to_cache(
                                  FileOf(files, sessions[s].url), combined_df))
    /\ sessions' = [sessions EXCEPT ![s].pc = "done"]
    /\ UNCHANGED <<now, call, probe, view, load, feed, summary>>

SessionNext ==
    \/ Tick /\ UNCHANGED charts
    \/ \E s \in Sessions, url \in Urls :
           \E events \in CalendarsOf(url) :
               LoadCache(s, url, FrameOf(events, AllCols))
    \/ \E s \in Sessions : MergeAndSave(s)

SessionSpec == Init /\ [][SessionNext]_vars

\* the file a url's cache holds after the runs x and then y reconciled one
\* after the other, starting without a cache file
SerialFile(x, y) ==
    update_event_store(
        update_event_store(NoFile, sessions[x].arg, sessions[x].at).file,
        sessions[y].arg, sessions[y].at).file

\* the file a url's cache holds after the run x alone reconciled
AloneFile(x) == update_event_store(NoFile, sessions[x].arg, sessions[x].at).file

\* C15: at most one reconciliation of a source is in flight at any time,
\* whoever calls it, so that after two reconciliations of a source the
\* persisted set is the one some serial order of the two leaves: no update
\* is lost.
C15_ReconciliationsSerialized ==
    \A x \in Sessions : \A y \in Sessions \ {x} :
        sessions[x].url = sessions[y].url =>
            /\ ~(sessions[x].pc = "loaded" /\ sessions[y].pc = "loaded")
            /\ (sessions[x].pc = "done" /\ sessions[y].pc = "done") =>
                   load_cached_events(FileOf(files, sessions[x].url))
                       \in {load_cached_events(SerialFile(x, y)),
                            load_cached_events(SerialFile(y, x))}

\* the run s saves in this step
Saves(s) == sessions[s].pc = "loaded" /\ sessions'[s].pc = "done"

\* C16: a reconciliation reads and writes the partition of its own source
\* only: the step that saves leaves the file of every other source as it
\* was, and, also when reconciliations of different sources interleave, the
\* file it leaves for its own source is the one it leaves when it runs alone.
C16_OwnPartitionOnly ==
    [][\A s \in Sessions :
           Saves(s) =>
               /\ \A u \in Urls \ {sessions[s].url} :
                      FileOf(files', u) = FileOf(files, u)
               /\ (\A o \in Sessions \ {s} : sessions[o].url # sessions[s].url)
                      => FileOf(files', sessions[s].url) = AloneFile(s)]_vars

\* two runs reconciled fresh events of two different sources and each
\* source's file holds the events of its own run
C16_Witness ==
    /\ sessions["a"].pc = "done" /\ sessions["b"].pc = "done"
    /\ sessions["a"].url # sessions["b"].url
    /\ \A s \in Sessions :
           /\ ~IsEmpty(sessions[s].arg)
           /\ load_cached_events(FileOf(files, sessions[s].url)).rows
                  = sessions[s].arg.rows

\* ---------------------------------------------------------------------
\* load_all_events (utils.py) over the configured sources, with the faults
\* of the file system: a cache file that cannot be read and a write of the
\* cache that fails.

\* calendar_data: the configured sources in their order
CalendarList == <<"s1", "s2">>

\* a file that was created or truncated and holds nothing
ZeroByteFile == [header |-> {}, lines |-> <<>>, exists |-> TRUE]

\* a file whose text stops inside its header line, before the start column
TornHeaderFile == [header |-> {"event_name"}, lines |-> <<>>, exists |-> TRUE]

\* what df.to_csv(path, index=False) can leave at the path when it fails:
\* the file as it was (the path could not be opened), an empty file, a torn
\* header, or the header and only the first rows.  to_csv opens the path
\* itself for writing: there is no temporary file and no rename.
FailedWrites(file, df) ==
    {file, ZeroByteFile, TornHeaderFile}
    \cup {[header |-> df.cols,
           lines |-> SubSeq(to_csv(df).lines, 1, k),
           exists |-> TRUE] : k \in 0..(Len(df.rows) - 1)}

\* load_cached_events raises: the file has content and pd.read_csv(path,
\* parse_dates=["start", "end"]) fails on it with an error other than
\* EmptyDataError, the only one that is caught
ReadRaises(file) ==
    /\ file.exists
    /\ getsize(file) > 0
    /\ ~({"start", "end"} \subseteq file.header)

\* parse_ics_from_url: the feed is fetched and parsed, load_cached_events
\* raises inside update_event_store and the outer handler returns [], with
\* events in the feed ("read_error") or without
RefreshReadError(url) ==
    /\ ReadRaises(FileOf(files, url))
    /\ \E events \in CalendarsOf(url) :
           call' = [op |-> "refresh", url |-> url,
                    outcome |-> IF events = <<>> THEN "no_events"
                                ELSE "read_error",
                    out |-> <<>>]
    /\ UNCHANGED <<files, now, probe>>

\* parse_ics_from_url: the feed is fetched and parsed, the combined frame is
\* not empty, df.to_csv raises inside update_event_store and the outer
\* handler returns []
RefreshWriteError(url) ==
    /\ ~ReadRaises(FileOf(files, url))
    /\ \E events \in CalendarsOf(url) :
           LET res == update_event_store(FileOf(files, url),
                                         FrameOf(events, AllCols), now)
           IN  /\ ~(IsEmpty(res.ret) \/ res.ret.cols = {})
               /\ \E f \in FailedWrites(FileOf(files, url), res.ret) :
                      files' = FilesWith(url, f)
    /\ call' = [op |-> "refresh", url |-> url, outcome |-> "write_error",
                out |-> <<>>]
    /\ UNCHANGED <<now, probe>>

\* parse_ics_from_url(url, calendar_name) with every way it can end
LoadCalendar(url) ==
    \/ RefreshHttpError(url)
    \/ RefreshException(url)
    \/ ~ReadRaises(FileOf(files, url)) /\ RefreshOk(url)
    \/ RefreshReadError(url)
    \/ RefreshWriteError(url)

\* load_all_events returns None, None as soon as a source fails
AbortOnFailure(ld, url, outcome, events) ==
    IF outcome \in {"http_error", "exception", "read_error", "write_error"}
    THEN [pc |-> Len(CalendarList) + 1,
          outcomes |-> [ld.outcomes EXCEPT ![url] = outcome],
          all_events |-> <<>>]
    ELSE [pc |-> ld.pc + 1,
          outcomes |-> [ld.outcomes EXCEPT ![url] = outcome],
          all_events |-> ld.all_events
                         \o [i \in DOMAIN events |->
                                [calendar_name |-> url, event |-> events[i]]]]

\* the loop body after parse_ics_from_url returned `events` for a source:
\* the events are tagged with the calendar and appended, the loop goes on
\* with the next source
AfterSource(ld, url, outcome, events) ==
    [pc |-> ld.pc + 1,
     outcomes |-> [ld.outcomes EXCEPT ![url] = outcome],
     all_events |-> ld.all_events
                    \o [i \in DOMAIN events |->
                           [calendar_name |-> url, event |-> events[i]]]]

\* load_all_events is called (again)
StartLoad ==
    /\ load.pc \in {0, Len(CalendarList) + 1}
    /\ load' = [NoLoad EXCEPT !.pc = 1]
    /\ UNCHANGED <<files, now, call, probe, view, sessions, feed, summary>>

\* one turn of the loop over calendar_data
LoadSource ==
    /\ load.pc \in 1..Len(CalendarList)
    /\ LoadCalendar(CalendarList[load.pc])
    /\ load' = AfterSource(load, CalendarList[load.pc], call'.outcome,
                           call'.out)
    /\ UNCHANGED <<view, sessions, feed, summary>>

LoadNext ==
    \/ Tick /\ UNCHANGED charts
    \/ StartLoad
    \/ LoadSource

LoadSpec == Init /\ [][LoadNext]_vars

\* C17: persisting a cache is an atomic replace: when the write fails for a
\* source that has a persisted cache, the cache still holds its complete
\* prior content, never a part of it and never nothing.
C17_WriteIsAtomic ==
    [][(/\ call'.outcome = "write_error"
        /\ ~IsEmpty(load_cached_events(FileOf(files, call'.url))))
           => FileOf(files', call'.url) = FileOf(files, call'.url)]_vars

\* C18: when persisting the reconciled set fails, the load for the source
\* still returns the reconciled set (which is not empty, or nothing would
\* have been written), not an empty list.
C18_SaveFailureStillDelivers ==
    (call.op = "refresh" /\ call.outcome = "write_error") => call.out # <<>>

\* C19: when the cache of a source cannot be read or parsed, the
\* reconciliation treats it as empty and completes: the load returns the
\* fresh events and persists them, so that the cache is readable again.
C19_CorruptCacheRecovered ==
    (call.op = "refresh" /\ call.outcome = "read_error")
        => /\ call.out # <<>>
           /\ ~ReadRaises(FileOf(files, call.url))

\* load_all_events has returned
Returned == load.pc = Len(CalendarList) + 1

\* the ways the load of one source fails
Failures == {"http_error", "exception", "read_error", "write_error"}

\* the events load_all_events returned for a source
EventsOf(url) ==
    LET tagged == SelectSeq(load.all_events,
                            LAMBDA e : e.calendar_name = url)
    IN  [i \in DOMAIN tagged |-> tagged[i].event]

\* C20: a failure in one source does not abort load_all_events: every other
\* configured source is still fetched and reconciled, and the events its
\* reconciliation persisted are among the events returned.
C20_FailureDoesNotAbort ==
    Returned =>
        \A f \in Urls : load.outcomes[f] \in Failures =>
            \A u \in Urls \ {f} :
                /\ load.outcomes[u] # "none"
                /\ load.outcomes[u] = "ok" =>
                       EventsOf(u) = load_cached_events(FileOf(files, u)).rows

\* the first source failed on an unreadable cache, the second was fetched
\* after it and its events were returned
C20_Witness ==
    /\ Returned
    /\ load.outcomes["s1"] = "read_error"
    /\ load.outcomes["s2"] = "ok"
    /\ EventsOf("s2") # <<>>
    /\ EventsOf("s1") = <<>>

\* C21: a window whose start lies after its end is rejected before the
\* apportionment: the run halts in select_month_range, no event is filtered
\* and no bucket or record is computed for it.
C21_InvalidWindowHalts ==
    view.window[1] > view.window[2] =>
        /\ view.option = "stopped"
        /\ view.events = <<>>
        /\ view.buckets = <<>>
        /\ view.records = <<>>

\* a run with events loaded was halted for its window
C21_Witness ==
    /\ view.option = "stopped"
    /\ view.window[1] > view.window[2]
    /\ view.all_events # <<>>

\* the records of the latest charts that carry the label of bucket i
RecordsIn(i) ==
    {k \in 1..Len(view.records) :
         view.records[k].time_label = view.buckets[i].time_label}

\* C26: for the event and each bucket, with overlap_start the later of the
\* two starts and overlap_end the earlier of the two ends, there is exactly
\* one record, of overlap_end - overlap_start hours, if overlap_end >
\* overlap_start, and no record otherwise; no record is longer than its
\* bucket, and none of a day bucket is longer than 24 hours.
C26_OverlapRecords ==
    Charted =>
        \A i \in 1..Len(view.buckets) :
            LET overlap_start == Max(view.events[1].start,
                                     view.buckets[i].period_start)
                overlap_end == Min(view.events[1].end,
                                   view.buckets[i].period_end)
            IN  IF overlap_end > overlap_start
                THEN /\ Cardinality(RecordsIn(i)) = 1
                     /\ \A k \in RecordsIn(i) :
                            /\ view.records[k].duration_hours
                                   = overlap_end - overlap_start
                            /\ view.records[k].duration_hours
                                   <= view.buckets[i].period_end
                                      - view.buckets[i].period_start
                            /\ view.option = "day" =>
                                   view.records[k].duration_hours
                                       <= 24 * SecondsPerHour
                ELSE RecordsIn(i) = {}

\* a 50-hour event over three days, charted by day: three records
C26_Witness ==
    /\ Charted
    /\ view.option = "day"
    /\ view.events[1].end - view.events[1].start = 50 * SecondsPerHour
    /\ Len(view.records) = 3

\* the date span of the event loaded meets the window
Intersects ==
    /\ DateOf(view.all_events[1].start) <= view.window[2]
    /\ DateOf(view.all_events[1].end) >= view.window[1]

\* C27: the filter of preprocess_dataframe keeps an event (whose start is
\* not after its end) if and only if the dates it spans, from the date of
\* its start to the date of its end, meet the window.
C27_FilterKeepsIntersecting ==
    (view.option \in DateOptions /\ Len(view.all_events) = 1) =>
        /\ Intersects => view.events = view.all_events
        /\ ~Intersects => view.events = <<>>

\* an event that starts before the window and ends after it was kept
C27_Witness ==
    /\ view.option \in DateOptions
    /\ Len(view.all_events) = 1
    /\ DateOf(view.all_events[1].start) < view.window[1]
    /\ DateOf(view.all_events[1].end) > view.window[2]
    /\ view.events = view.all_events

\* ---------------------------------------------------------------------
\* parse_ics_from_url event by event (utils.py 77-101): each event of the
\* parsed calendar is converted inside a try of its own; an event whose
\* conversion raises (it has no start, say) is skipped.

\* the parsed calendars with, for each event, whether its conversion
\* succeeds
FeedsOf(url) ==
    {[i \in DOMAIN l |-> [event |-> l[i], converts |-> f[i]]] :
         l \in CalendarsOf(url), f \in [1..MaxFresh -> BOOLEAN]}

\* the loop with `break` in place of `continue`: the events before the
\* first one that fails
RECURSIVE events_until_failure(_, _)
events_until_failure(entries, k) ==
    IF k = 0 THEN <<>>
    ELSE IF \E j \in 1..k : ~entries[j].converts
         THEN events_until_failure(entries, k - 1)
         ELSE Append(events_until_failure(entries, k - 1), entries[k].event)

\* events after the first k turns of the loop: `events.append({...})`, or
\* `continue` in the handler
RECURSIVE converted_events(_, _)
converted_events(entries, k) ==
    IF k = 0 THEN <<>>
    ELSE IF entries[k].converts
         THEN Append(converted_events(entries, k - 1), entries[k].event)
         ELSE converted_events(entries, k - 1)

\* parse_ics_from_url: the feed is fetched and parsed, its events are
\* converted one by one, the frame of the converted ones is reconciled
ParseFeed(url) ==
    \E entries \in FeedsOf(url) :
        LET new_df == FrameOf(converted_events(entries, Len(entries)),
                              AllCols)
        IN  /\ feed' = [fetched |-> TRUE, entries |-> entries,
                        new_df |-> new_df]
            /\ StoreCall("refresh", url, new_df)
            /\ UNCHANGED <<now, probe, view, sessions, load, summary>>

FeedNext ==
    \/ Tick /\ UNCHANGED charts
    \/ \E url \in Urls : ParseFeed(url)

FeedSpec == Init /\ [][FeedNext]_vars

\* the row of the frame an event is converted to
RowOf(e) == Row(e.uid, e.span[1], e.span[2], e.name)

\* C22: when the conversion of one event of a feed fails, that event alone
\* is skipped: the fresh frame handed to the reconciliation holds every
\* event of the feed that converts and no other, and the reconciled set
\* returned holds them all.
C22_OnlyFailedEventSkipped ==
    feed.fetched =>
        /\ \A i \in DOMAIN feed.entries :
               feed.entries[i].converts
                   <=> RowOf(feed.entries[i].event) \in RowSet(feed.new_df)
        /\ Len(feed.new_df.rows)
               = Cardinality({i \in DOMAIN feed.entries :
                                  feed.entries[i].converts})
        /\ RowSet(feed.new_df) \subseteq Range(call.out)

\* the first event of a feed failed, the second was converted, handed on
\* and returned
C22_Witness ==
    /\ feed.fetched
    /\ Len(feed.entries) = 2
    /\ ~feed.entries[1].converts
    /\ feed.entries[2].converts
    /\ feed.new_df.rows = <<RowOf(feed.entries[2].event)>>
    /\ RowOf(feed.entries[2].event) \in Range(call.out)

\* ---------------------------------------------------------------------
\* The Import page and the feed refresh on one url, each call of
\* update_event_store recorded with its argument: the frame of a refresh
\* carries event_name, the frame of an import (pages/Import_ICS.py 86-102)
\* does not.

\* import_df of an upload that holds at least one event
ImportFrames ==
    {FrameOf(l, AllCols \ {"event_name"}) : l \in ParsedCalendars \ {<<>>}}

ImportNext ==
    /\ \/ Tick
       \/ \E df \in UidFrames : Reconcile(StoreUrl, df)
       \/ \E df \in ImportFrames : Reconcile(StoreUrl, df)
    /\ UNCHANGED charts

ImportSpec == Init /\ [][ImportNext]_vars

\* the recorded call was an import
ImportCall == probe.called /\ probe.arg \in ImportFrames

\* the recorded call was a feed refresh that delivered events
RefreshCall == probe.called /\ probe.arg \in UidFrames /\ ~IsEmpty(probe.arg)

\* C23: an import merges the imported events into the cache of the target
\* calendar: afterwards the persisted set holds every imported event and
\* every event cached before whose uid the import did not supply.
C23_ImportMerges ==
    ImportCall =>
        /\ RowSet(probe.arg) \subseteq RowSet(Persisted(StoreUrl))
        /\ \A r \in RowSet(probe.cached) :
               r.uid \notin UidsOf(probe.arg)
                   => r \in RowSet(Persisted(StoreUrl))

\* C30: the events imported into a source's cache are still in the source's
\* reconciled set after the next feed refresh of the source, whatever their
\* start and whether or not the feed reports them.
C30_ImportSurvivesRefresh ==
    [][(ImportCall /\ RefreshCall')
           => \A r \in RowSet(probe.arg) :
                  /\ r.uid \in UidsOf(Persisted(StoreUrl))'
                  /\ r.uid \in UidsOf(probe'.ret)]_vars

\* C24: the persisted record set of a source is never deleted
\* automatically: no step of a fetch cycle or of a reconciliation leaves a
\* source without the record set it had (only the operator's clear cache
\* may, and no fetch cycle is that).
C24_NeverDeletedAutomatically ==
    [][\A u \in Urls : ~IsEmpty(Persisted(u)) => ~IsEmpty(Persisted(u)')]_vars

\* C28: whenever update_event_store returns without error, the persisted
\* record set of the source is the set it returned, also when that set is
\* empty.
C28_PersistedIsReturned ==
    probe.called => Persisted(StoreUrl).rows = probe.ret.rows

\* C29: with the clock not running backwards, a cached event with a uid
\* whose start is older than the cutoff stays in the persisted set of the
\* source through every later reconciliation, until a fresh fetch carries
\* its uid.
C29_OldEventStays ==
    [][\A r \in RowSet(Persisted(StoreUrl)) :
           (r.uid # NaN /\ r.start < Cutoff(now))
               => \/ r \in RowSet(Persisted(StoreUrl))'
                  \/ r.uid \in UidsOf(probe'.arg)]_vars

\* at the latest clock reading a fetch of another event was reconciled
\* against a cache that held an old event, and the old event is persisted
C29_Witness ==
    /\ UidCall
    /\ ~IsEmpty(probe.arg)
    /\ probe.at = 50
    /\ \E r \in RowSet(probe.cached) :
           /\ r.start < ProbeCutoff
           /\ r.uid \notin UidsOf(probe.arg)
           /\ r \in RowSet(Persisted(StoreUrl))

\* ---------------------------------------------------------------------
\* The aggregation of the chart records (app.py 349-355, 383-388, 424-429)
\* and the percent column (app.py 439-441).  A percent is kept in tenths
\* (33.3 as 333), the unit .round(1) leaves.

\* the labels of two buckets and the groups (calendars or categories)
Labels == <<"2024-09-01", "2024-09-02">>

GroupList == <<"g1", "g2", "g3">>

\* the hours (as seconds) one group can have in one bucket
HourChoices == {0, SecondsPerHour, 2 * SecondsPerHour}

\* the (time_label, group) pairs in the order groupby sorts them
Keys ==
    [k \in 1..(Len(Labels) * Len(GroupList)) |->
        [time_label |-> Labels[((k - 1) \div Len(GroupList)) + 1],
         group |-> GroupList[((k - 1) % Len(GroupList)) + 1]]]

\* results: the records of the bucket loops for the hours each group has in
\* each bucket; a record is appended only `if duration > 0`
ResultsOf(hours) ==
    SelectSeq([k \in DOMAIN Keys |->
                  [time_label |-> Keys[k].time_label, group |-> Keys[k].group,
                   duration_hours |-> hours[k]]],
              LAMBDA r : r.duration_hours > 0)

RECURSIVE SumWhere(_, _, _, _)
\* the sum of duration_hours over the first n records with the label and,
\* unless it is "", the group
SumWhere(records, n, label, group) ==
    IF n = 0 THEN 0
    ELSE SumWhere(records, n - 1, label, group)
         + (IF /\ records[n].time_label = label
               /\ (group = "" \/ records[n].group = group)
            THEN records[n].duration_hours ELSE 0)

\* Series.round(1) of 100 * n / d, in tenths: to the nearest tenth, a tie
\* to the even one
round1(n, d) ==
    LET q == (1000 * n) \div d
        r == (1000 * n) % d
    IN  IF 2 * r > d THEN q + 1
        ELSE IF 2 * r < d THEN q
        ELSE IF q % 2 = 0 THEN q ELSE q + 1

\* time_aggregation with its percent column: one row for each (time_label,
\* group) that has records, its hours summed, and its share of the hours
\* of its time_label (0 where that total is 0)
Aggregate(results) ==
    LET present == SelectSeq(Keys, LAMBDA key :
                       \E i \in DOMAIN results :
                           /\ results[i].time_label = key.time_label
                           /\ results[i].group = key.group)
    IN  [j \in DOMAIN present |->
            LET duration == SumWhere(results, Len(results),
                                     present[j].time_label, present[j].group)
                time_total == SumWhere(results, Len(results),
                                       present[j].time_label, "")
            IN  [time_label |-> present[j].time_label,
                 group |-> present[j].group,
                 duration_hours |-> duration,
                 percent |-> IF time_total = 0 THEN 0
                             ELSE round1(duration, time_total)]]

\* the charts aggregate their records and compute the percent column
DrawPercent ==
    \E hours \in [DOMAIN Keys -> HourChoices] :
        /\ summary' = [drawn |-> TRUE, results |-> ResultsOf(hours),
                       time_aggregation |-> Aggregate(ResultsOf(hours))]
        /\ UNCHANGED <<files, now, call, probe, view, sessions, load, feed>>

PercentNext == DrawPercent

PercentSpec == Init /\ [][PercentNext]_vars

RECURSIVE PercentSum(_, _, _)
\* the sum of the percent column over the first n rows with the label
PercentSum(rows, n, label) ==
    IF n = 0 THEN 0
    ELSE PercentSum(rows, n - 1, label)
         + (IF rows[n].time_label = label THEN rows[n].percent ELSE 0)

\* C25: in every bucket of the aggregation the percent values of all groups
\* add up to 100 (1000 tenths), or to 0 when the bucket has no hours.
C25_PercentSumsTo100 ==
    summary.drawn =>
        \A l \in DOMAIN Labels :
            PercentSum(summary.time_aggregation,
                       Len(summary.time_aggregation), Labels[l])
                = IF SumWhere(summary.results, Len(summary.results),
                              Labels[l], "") = 0
                  THEN 0 ELSE 1000

====
